---- MODULE Spec2Model ----
(***************************************************************************)
(* Model of the search-interval scheduler of tgtg_data_collector           *)
(* (too_good_to_go/search_interval.py) and of the polling loop that calls  *)
(* it (backend.py, firebase/user.py).                                      *)
(*                                                                         *)
(* Time is counted in ticks since the epoch; TicksPerHour ticks make one   *)
(* hour, so the program's SECONDS_PER_HOUR is TicksPerHour ticks.          *)
(***************************************************************************)
EXTENDS Integers, Sequences, FiniteSets, TLC

VARIABLES
    now_uclock,        \* is_time_to_search argument
    start_hour,        \* is_time_to_search argument
    interval_hour,     \* is_time_to_search argument
    last_search_time,  \* is_time_to_search argument
    time_zone,         \* is_time_to_search argument (a pytz zone)
    host_zone,         \* the local zone of the process (read by datetime.fromtimestamp)
    result,            \* outcome of the call: "pending" before it, then "True", "False" or "ValueError"
    frame,             \* the locals of the call of is_time_to_search once it has run
    scan_times,        \* get_start_of_last_interval argument interval_times
    scan_now,          \* get_start_of_last_interval argument now_uclock
    scan_result,       \* what get_start_of_last_interval returned (<<>> before the call)
    clock,             \* time.time() of the backend process
    database_cache,    \* FirebaseUser.database_cache: user -> document
    firestore,         \* the documents uploaded with user_ref.document(user).set
    pc,                \* where the polling thread is: "idle", "loop", "search", "failed"
    searches,          \* the searches of this tick still to visit (from get_searches)
    decided_at,        \* the now passed to is_time_to_search for the search being run
    ran,               \* history: the search run last and the now of its decision
    failure,           \* history: what made the tick fail
    optimizer,         \* get_search_grid_details: its arguments, locals and returned tuple
    sync,              \* FirebaseUser: database_cache as dict objects, its lock, callback_done, the two threads
    threads,           \* TgtgCollectorBackend.threads and the search-context worker of one user
    searcher           \* Searcher.run_search: the stamp file, common_data and the cells processed

fnVars == <<now_uclock, start_hour, interval_hour, last_search_time, time_zone, host_zone, result,
            frame>>

scanVars == <<scan_times, scan_now, scan_result>>

beVars == <<clock, database_cache, firestore, pc, searches, decided_at, ran, failure>>

gridVars == <<optimizer>>

syncVars == <<sync>>

jobVars == <<threads>>

stampVars == <<searcher>>

\* the variables of the other components, for the actions of each component
besidesBackend == <<fnVars, scanVars, gridVars, syncVars, jobVars, stampVars>>

besidesFn == <<beVars, scanVars, gridVars, syncVars, jobVars, stampVars>>

besidesScan == <<fnVars, beVars, gridVars, syncVars, jobVars, stampVars>>

besidesGrid == <<fnVars, beVars, scanVars, syncVars, jobVars, stampVars>>

besidesSync == <<fnVars, beVars, scanVars, gridVars, jobVars, stampVars>>

besidesJob == <<fnVars, beVars, scanVars, gridVars, syncVars, stampVars>>

besidesStamp == <<fnVars, beVars, scanVars, gridVars, syncVars, jobVars>>

vars == <<fnVars, beVars, scanVars, gridVars, syncVars, jobVars, stampVars>>

-----------------------------------------------------------------------------
(* Bounds of the model *)

TicksPerHour == 2

\* datetime.fromtimestamp raises ValueError past year 9999; DatetimeMax is that
\* limit on the model's scale.
DatetimeMax == 800

\* The window of now: NowBefore hours before and NowAfter hours after the
\* daylight-saving transition of the zone LosAngeles.
NowBefore == 6
NowAfter == 23

\* last_search_time is drawn from the MaxLastAge hours before now, from one
\* interval before now, from now + 1, 0 and a far future value
MaxLastAge == 5

\* the backend's clock advances by at most ClockTicks ticks
ClockTicks == 10

\* numResults of a search item is kept up to MaxResults
MaxResults == 1

\* get_start_of_last_interval called on its own: ascending lists of up to
\* MaxListLen boundaries among 1..MaxBoundary, now in 0..MaxBoundary + 1
MaxBoundary == 5
MaxListLen == 4

\* get_search_grid_details: lengths are counted in quanta of QuantaPerKilometer
\* to the kilometre; the grid width and the radius are 1..MaxLength quanta,
\* the budget 0..MaxBudget, the cost of one search 0..MaxCostPerSearch and
\* there are 1..MaxPrompts prompts
QuantaPerKilometer == 4
MaxLength == 10
MaxBudget == 6
MaxCostPerSearch == 2
MaxPrompts == 2

-----------------------------------------------------------------------------
(* Program constants *)

INTERVALS_with_five == {1, 2, 3, 4, 5, 6, 8, 12, 24}

INTERVALS == {1, 2, 3, 4, 6, 8, 12, 24}

LOOKBACK_DAYS == 1

SECONDS_PER_HOUR == TicksPerHour

SECONDS_PER_DAY == 24 * SECONDS_PER_HOUR

\* Python's None as returned by get_start_of_last_interval (timestamps are >= 0)
None == -1

-----------------------------------------------------------------------------
(* Time zones.  A zone has one offset from UTC before the instant `at' and   *)
(* another from `at' on (a daylight-saving transition); a fixed zone has     *)
(* twice the same offset.                                                    *)

DstAt == 82 * TicksPerHour

UTC == [name |-> "UTC", before |-> 0, after |-> 0, at |-> 0]

\* America/Los_Angeles around a spring-forward transition: UTC-8 until DstAt
\* (02:00 PST), UTC-7 from then on
LosAngeles == [name |-> "America/Los_Angeles", before |-> 0 - 8 * TicksPerHour,
               after |-> 0 - 7 * TicksPerHour, at |-> DstAt]

\* America/New_York around a fall-back transition: UTC-4 until FallAt
\* (02:00 EDT), UTC-5 from then on
FallAt == 78 * TicksPerHour

NewYork == [name |-> "America/New_York", before |-> 0 - 4 * TicksPerHour,
            after |-> 0 - 5 * TicksPerHour, at |-> FallAt]

\* Asia/Tokyo: UTC+9 throughout
Tokyo == [name |-> "Asia/Tokyo", before |-> 9 * TicksPerHour,
          after |-> 9 * TicksPerHour, at |-> 0]

Zones == {UTC, LosAngeles, NewYork, Tokyo}

\* utcoffset of zone z at the instant t
UtcOffset(z, t) == IF t < z.at THEN z.before ELSE z.after

\* datetime.datetime.fromtimestamp(t): the naive wall-clock time of the
\* instant t in the local zone of the process
fromtimestamp(host, t) == t + UtcOffset(host, t)

\* time_zone.localize(naive) of pytz with is_dst=False: the offset attached to
\* a naive wall-clock time.  One offset fits outside transitions; in a gap or
\* an ambiguous hour pytz settles on the standard (smaller) offset.
localize(z, wall) ==
    LET fits == {o \in {z.before, z.after} : UtcOffset(z, wall - o) = o}
    IN  IF Cardinality(fits) = 1
        THEN CHOOSE o \in fits : TRUE
        ELSE IF z.before < z.after THEN z.before ELSE z.after

-----------------------------------------------------------------------------
(* search_interval.py *)

RECURSIVE ScanIntervals_tie_to_previous(_, _, _)
ScanIntervals_tie_to_previous(interval_times, now, i) ==
    IF i > Len(interval_times) THEN None
    ELSE IF interval_times[i] < now THEN ScanIntervals_tie_to_previous(interval_times, now, i + 1)
    ELSE IF i = 1 THEN ScanIntervals_tie_to_previous(interval_times, now, i + 1)
    ELSE interval_times[i - 1]

RECURSIVE ScanIntervals_tie_to_none(_, _, _)
ScanIntervals_tie_to_none(interval_times, now, i) ==
    IF i > Len(interval_times) THEN None
    ELSE IF interval_times[i] < now THEN ScanIntervals_tie_to_none(interval_times, now, i + 1)
    ELSE IF interval_times[i] = now THEN None
    ELSE IF i = 1 THEN ScanIntervals_tie_to_none(interval_times, now, i + 1)
    ELSE interval_times[i - 1]

\* The for loop of get_start_of_last_interval from (1-based) index i on
RECURSIVE ScanIntervals(_, _, _)
ScanIntervals(interval_times, now, i) ==
    IF i > Len(interval_times) THEN None
    ELSE IF interval_times[i] < now THEN ScanIntervals(interval_times, now, i + 1)
    ELSE IF interval_times[i] = now THEN interval_times[i]
    ELSE IF i = 1 THEN ScanIntervals(interval_times, now, i + 1)
    ELSE interval_times[i - 1]

get_start_of_last_interval_scan_only(interval_times, now) ==
    ScanIntervals(interval_times, now, 1)

get_start_of_last_interval(interval_times, now) ==
    IF Len(interval_times) = 1
    THEN interval_times[1]
    ELSE ScanIntervals(interval_times, now, 1)

get_localized_start_time(now, start, tz, host) ==
    LET wall   == fromtimestamp(host, now)
        offset == localize(tz, wall)
        day    == wall \div SECONDS_PER_DAY
        start_time == day * SECONDS_PER_DAY + start * SECONDS_PER_HOUR
    IN  start_time - offset

IntervalTimes_hourly(now, start, interval, tz, host) ==
    LET anchor      == get_localized_start_time(now, start, tz, host)
        doubled     == (LOOKBACK_DAYS + 1) * (24 \div interval)
        range_value == IF doubled > 2 THEN doubled ELSE 2
    IN  [i \in 1..range_value |->
            anchor - SECONDS_PER_DAY * LOOKBACK_DAYS + (i - 1) * SECONDS_PER_HOUR]

IntervalTimes_single_day(now, start, interval, tz, host) ==
    LET anchor == get_localized_start_time(now, start, tz, host)
    IN  [i \in 1..(24 \div interval) |->
            anchor - SECONDS_PER_DAY * LOOKBACK_DAYS + (i - 1) * SECONDS_PER_HOUR * interval]

\* The list interval_times built by is_time_to_search
IntervalTimes(now, start, interval, tz, host) ==
    LET start_time_uclock    == get_localized_start_time(now, start, tz, host)
        yesterday_start_time == start_time_uclock - SECONDS_PER_DAY * LOOKBACK_DAYS
        num_intervals        == 24 \div interval
        doubled              == (LOOKBACK_DAYS + 1) * num_intervals
        range_value          == IF doubled > 2 THEN doubled ELSE 2
    IN  [i \in 1..range_value |->
            yesterday_start_time + (i - 1) * SECONDS_PER_HOUR * interval]

\* The outcome of is_time_to_search: "True", "False", or "ValueError" when
\* datetime.fromtimestamp(last_search_time) raises
is_time_to_search(now, start, interval, last, tz, host) ==
    IF interval \notin INTERVALS THEN "False"
    ELSE LET interval_times == IntervalTimes(now, start, interval, tz, host)
             start_of_last_interval == get_start_of_last_interval(interval_times, now)
         IN  IF fromtimestamp(host, last) > DatetimeMax THEN "ValueError"
             ELSE IF last > now THEN "False"
             ELSE IF start_of_last_interval = None THEN "True"
             ELSE IF last >= start_of_last_interval THEN "False"
             ELSE "True"

\* the locals of is_time_to_search before the call and after an early return
NoFrame ==
    [start_time_uclock |-> None, interval_times |-> <<>>, scanned |-> FALSE,
     start_of_last_interval |-> None]

\* The locals of a call of is_time_to_search: the anchor, the list
\* interval_times, whether get_start_of_last_interval was reached (scanned)
\* and what it returned
Locals(now, start, interval, last, tz, host) ==
    IF interval \notin INTERVALS THEN NoFrame
    ELSE LET times   == IntervalTimes(now, start, interval, tz, host)
             reached == fromtimestamp(host, last) <= DatetimeMax /\ last <= now
         IN  [start_time_uclock |-> get_localized_start_time(now, start, tz, host),
              interval_times |-> times,
              scanned |-> reached,
              start_of_last_interval |->
                  IF reached THEN get_start_of_last_interval(times, now) ELSE None]

\* no call of get_search_grid_details
GridOff == optimizer = [pc |-> "off"]

\* no thread of the cache synchronisation is being followed
SyncOff == sync = [pc |-> "off"]

\* no search-context job is being followed
JobOff == threads = [pc |-> "off"]

\* no run_search is being followed
StampOff == searcher = [pc |-> "off"]

-----------------------------------------------------------------------------
(* The scheduler's functions called on their own: the arguments are drawn at *)
(* the start, the call produces the outcome.                                 *)

StartHours == 0..23

AllowedIntervals == {1, 2, 3, 4, 6, 8, 12, 24}

IntervalInputs == AllowedIntervals \cup {0 - 1, 0, 5, 7, 25}

NowInputs == (DstAt - NowBefore * TicksPerHour)..(DstAt + NowAfter * TicksPerHour)

\* a last_search_time past the range of datetime in every zone
FarFuture == DatetimeMax + SECONDS_PER_DAY

LastInputs(now) ==
    {0, FarFuture}
        \cup ((now - MaxLastAge * TicksPerHour)..(now + 1))
        \cup {now - i * TicksPerHour : i \in AllowedIntervals}

\* the strictly ascending lists of 1 to MaxListLen boundaries
AscendingLists ==
    {s \in UNION {[1..n -> 1..MaxBoundary] : n \in 1..MaxListLen} :
        \A i \in 1..(Len(s) - 1) : s[i] < s[i + 1]}

\* get_start_of_last_interval is not called on its own
ScanOff ==
    /\ scan_times = <<>>
    /\ scan_now = 0
    /\ scan_result = <<>>

\* is_time_to_search is not called on its own
FnOff ==
    /\ now_uclock = 0
    /\ start_hour = 0
    /\ interval_hour = 0
    /\ last_search_time = 0
    /\ time_zone = UTC
    /\ result = "off"
    /\ frame = NoFrame

\* the backend is not running
BackendOff ==
    /\ clock = 0
    /\ database_cache = <<>>
    /\ firestore = <<>>
    /\ pc = "off"
    /\ searches = <<>>
    /\ decided_at = 0
    /\ ran = <<>>
    /\ failure = "none"

InitFn ==
    /\ BackendOff
    /\ ScanOff
    /\ GridOff
    /\ SyncOff
    /\ JobOff
    /\ StampOff
    /\ frame = NoFrame
    /\ now_uclock \in NowInputs
    /\ start_hour \in StartHours
    /\ interval_hour \in IntervalInputs
    /\ last_search_time \in LastInputs(now_uclock)
    /\ time_zone \in Zones
    /\ host_zone \in {UTC, time_zone}
    /\ result = "pending"

CallIsTimeToSearch ==
    /\ result = "pending"
    /\ result' = is_time_to_search(now_uclock, start_hour, interval_hour,
                                   last_search_time, time_zone, host_zone)
    /\ frame' = Locals(now_uclock, start_hour, interval_hour,
                        last_search_time, time_zone, host_zone)
    /\ UNCHANGED <<now_uclock, start_hour, interval_hour, last_search_time,
                   time_zone, host_zone>>
    /\ UNCHANGED besidesFn

\* the arguments of a call of get_start_of_last_interval
InitScan ==
    /\ BackendOff
    /\ FnOff
    /\ GridOff
    /\ SyncOff
    /\ JobOff
    /\ StampOff
    /\ host_zone = UTC
    /\ scan_times \in AscendingLists
    /\ scan_now \in 0..(MaxBoundary + 1)
    /\ scan_result = <<>>

\* scan_result holds the returned value once the call has been made
CallGetStartOfLastInterval ==
    /\ scan_times # <<>>
    /\ scan_result = <<>>
    /\ scan_result' = <<get_start_of_last_interval(scan_times, scan_now)>>
    /\ UNCHANGED <<scan_times, scan_now>>
    /\ UNCHANGED besidesScan

NextFn ==
    \/ CallIsTimeToSearch
    \/ CallGetStartOfLastInterval

SpecFn == (InitFn \/ InitScan) /\ [][NextFn]_vars

-----------------------------------------------------------------------------
(* search_context/util.py: get_search_grid_details.  Lengths are fixed-point  *)
(* numbers: multiples of one quantum, so that halving the step ends at 0 as   *)
(* the halving of a float ends at 0.0.  The optimizer record holds the        *)
(* arguments (max_grid_resolution_width_meters, max_cost_per_city,            *)
(* cost_per_search after the multiplication by len(prompts),                  *)
(* radius_meters), the locals of the loop and the returned tuple.             *)

METERS_PER_KILOMETER == QuantaPerKilometer

\* calculate_cost_from_results: int(total_area_meters / search_block_area) and
\* the cost of that many squares
calculate_cost_from_results(search_block_width, cost_per_square, radius_meters) ==
    LET area_width        == radius_meters * 2
        number_of_squares == (area_width * area_width) \div (search_block_width * search_block_width)
    IN  [number_of_squares |-> number_of_squares,
         total_cost        |-> number_of_squares * cost_per_square]

\* get_grid_coordinates: lat_steps * lon_steps cells, of which those over
\* water are left out
lat_steps(radius_meters, grid_side_meters) == (radius_meters \div grid_side_meters) * 2

MaxGridCells(radius_meters, grid_side_meters) ==
    lat_steps(radius_meters, grid_side_meters) * lat_steps(radius_meters, grid_side_meters)

WithinBudget_positive_only(total_cost, max_cost_per_city) == 0 < total_cost

\* the test that ends the loop: 0 < total_cost <= max_cost_per_city
WithinBudget(total_cost, max_cost_per_city) ==
    0 < total_cost /\ total_cost <= max_cost_per_city

\* the state at the first pass of the loop
InitGrid ==
    /\ BackendOff
    /\ FnOff
    /\ host_zone = UTC
    /\ ScanOff
    /\ SyncOff
    /\ JobOff
    /\ StampOff
    /\ \E width \in 1..MaxLength, radius \in 1..MaxLength, budget \in 0..MaxBudget,
          cost \in 0..MaxCostPerSearch, prompts \in 1..MaxPrompts :
            optimizer = [pc |-> "loop",
                         max_grid_resolution_width_meters |-> width,
                         max_cost_per_city |-> budget,
                         cost_per_search   |-> cost * prompts,
                         radius_meters     |-> radius,
                         new_radius_meters |-> radius,
                         step_size_meters  |-> METERS_PER_KILOMETER,
                         number_of_squares |-> 0,
                         total_cost        |-> budget * 10,
                         returned          |-> <<>>]

\* the cost computed at the head of a pass of the loop
PassCost ==
    calculate_cost_from_results(optimizer.max_grid_resolution_width_meters,
                                optimizer.cost_per_search, optimizer.new_radius_meters)

\* a pass that ends with break: the grid is generated and the tuple returned
OptimizerReturnsGrid ==
    /\ optimizer.pc = "loop"
    /\ WithinBudget(PassCost.total_cost, optimizer.max_cost_per_city)
    /\ \E cells \in 0..MaxGridCells(optimizer.new_radius_meters,
                                     optimizer.max_grid_resolution_width_meters) :
         optimizer' = [optimizer EXCEPT
                          !.pc = "returned",
                          !.number_of_squares = PassCost.number_of_squares,
                          !.total_cost = PassCost.total_cost,
                          !.returned = [grid |-> cells,
                                        number_of_squares |-> PassCost.number_of_squares,
                                        total_cost |-> PassCost.total_cost,
                                        new_radius_meters |-> optimizer.new_radius_meters]]
    /\ UNCHANGED besidesGrid

\* a pass with total_cost <= 0: the step is halved and added to the radius
OptimizerGrowsRadius ==
    /\ optimizer.pc = "loop"
    /\ ~WithinBudget(PassCost.total_cost, optimizer.max_cost_per_city)
    /\ PassCost.total_cost <= 0
    /\ optimizer' = [optimizer EXCEPT
                        !.number_of_squares = PassCost.number_of_squares,
                        !.total_cost = PassCost.total_cost,
                        !.step_size_meters = optimizer.step_size_meters \div 2,
                        !.new_radius_meters =
                            optimizer.new_radius_meters + optimizer.step_size_meters \div 2]
    /\ UNCHANGED besidesGrid

\* a pass over the budget with a radius no larger than the step: the failure
\* result is returned
OptimizerFails ==
    /\ optimizer.pc = "loop"
    /\ ~WithinBudget(PassCost.total_cost, optimizer.max_cost_per_city)
    /\ PassCost.total_cost > 0
    /\ optimizer.new_radius_meters <= optimizer.step_size_meters
    /\ optimizer' = [optimizer EXCEPT
                        !.pc = "failed",
                        !.number_of_squares = PassCost.number_of_squares,
                        !.total_cost = PassCost.total_cost,
                        !.returned = [grid |-> 0, number_of_squares |-> 0,
                                      total_cost |-> PassCost.total_cost,
                                      new_radius_meters |-> 0]]
    /\ UNCHANGED besidesGrid

\* a pass over the budget: the radius is reduced by the step
OptimizerShrinksRadius ==
    /\ optimizer.pc = "loop"
    /\ ~WithinBudget(PassCost.total_cost, optimizer.max_cost_per_city)
    /\ PassCost.total_cost > 0
    /\ optimizer.new_radius_meters > optimizer.step_size_meters
    /\ optimizer' = [optimizer EXCEPT
                        !.number_of_squares = PassCost.number_of_squares,
                        !.total_cost = PassCost.total_cost,
                        !.new_radius_meters =
                            optimizer.new_radius_meters - optimizer.step_size_meters]
    /\ UNCHANGED besidesGrid

get_search_grid_details ==
    \/ OptimizerReturnsGrid
    \/ OptimizerGrowsRadius
    \/ OptimizerFails
    \/ OptimizerShrinksRadius

SpecGrid == InitGrid /\ [][get_search_grid_details]_vars

\* the loop keeps running: a pass that can be made is made
SpecGridLive == SpecGrid /\ WF_vars(get_search_grid_details)

-----------------------------------------------------------------------------
(* firebase/user.py: the cache of user documents and the searches read from it.  *)
(* A user document is modelled by the fields the scheduler reads and writes:    *)
(* hour_interval (searches.hoursBetweenCollection), hour_start                  *)
(* (searches.collectionTimeStart), time_zone (preferences.searchTimeZone.value) *)
(* and items (searches.items): name -> [region, lastSearchTime, numResults].    *)
(* A region is 0 when the item has none, else a number naming its coordinates;  *)
(* InvalidRegion names a region with a latitude, longitude or radius of 0.      *)

\* the order in which the cache holds the users and a document holds its items
Users == <<"u1", "u2">>

Names == <<"a", "b">>

\* the value "" of preferences.searchTimeZone.value
NoZone == [name |-> "", before |-> 0, after |-> 0, at |-> 0]

\* d[key] = value on a dict held as the list of its <<key, value>> pairs in
\* insertion order
RECURSIVE DictSet(_, _, _)
DictSet(d, key, value) ==
    IF d = <<>> THEN << <<key, value>> >>
    ELSE IF Head(d)[1] = key THEN << <<key, value>> >> \o Tail(d)
    ELSE <<Head(d)>> \o DictSet(Tail(d), key, value)

InvalidRegion == 3

Regions == {0, 1, 2, InvalidRegion}

\* the joined string that get_uuid hashes; <<>> stands for the empty uuid
get_uuid(search) ==
    IF search.region = 0 \/ search.region = InvalidRegion THEN <<>>
    ELSE <<search.user, search.region, search.hour_start, search.hour_interval,
           search.time_zone.name>>

\* the Search that get_searches builds for one item
SearchOf(user, info, name) ==
    [user             |-> user,
     search_name      |-> name,
     region           |-> info.items[name].region,
     hour_start       |-> info.hour_start,
     hour_interval    |-> info.hour_interval,
     time_zone        |-> info.time_zone,
     last_search_time |-> info.items[name].lastSearchTime,
     num_results      |-> info.items[name].numResults]

\* the inner loop of get_searches over the items of one user
RECURSIVE AddItems(_, _, _, _)
AddItems(d, user, info, names) ==
    IF names = <<>> THEN d
    ELSE IF Head(names) \notin DOMAIN info.items THEN AddItems(d, user, info, Tail(names))
    ELSE IF info.items[Head(names)].region = 0 THEN AddItems(d, user, info, Tail(names))
    ELSE LET search == SearchOf(user, info, Head(names))
         IN  AddItems(DictSet(d, get_uuid(search), search), user, info, Tail(names))

\* the outer loop of get_searches over the users of the cache
RECURSIVE AddUsers(_, _, _)
AddUsers(d, cache, users) ==
    IF users = <<>> THEN d
    ELSE IF Head(users) \notin DOMAIN cache THEN AddUsers(d, cache, Tail(users))
    ELSE LET info == cache[Head(users)]
         IN  IF DOMAIN info.items = {} THEN AddUsers(d, cache, Tail(users))
             ELSE IF info.hour_interval = 0 \/ info.time_zone.name = ""
                  THEN AddUsers(d, cache, Tail(users))
             ELSE AddUsers(AddItems(d, Head(users), info, Names), cache, Tail(users))

get_searches(cache) == AddUsers(<<>>, cache, Users)

\* _get_search_item: the user under whom the first item called name is found
\* ("" when there is none); the item returned is the cached one itself
RECURSIVE FindSearchItem(_, _, _)
FindSearchItem(cache, name, users) ==
    IF users = <<>> THEN ""
    ELSE IF Head(users) \in DOMAIN cache /\ name \in DOMAIN cache[Head(users)].items
         THEN Head(users)
    ELSE FindSearchItem(cache, name, Tail(users))

get_search_item(cache, name) == FindSearchItem(cache, name, Users)

\* update_search_stats with _update_search_fields and
\* _maybe_upload_db_cache_to_firestore: the cache and the uploaded documents
\* after the call
update_search_stats(cache, docs, user, name, time, new_results) ==
    LET owner == get_search_item(cache, name)
    IN  IF owner = "" \/ user \notin DOMAIN cache
        THEN [cache |-> cache, docs |-> docs]
        ELSE LET item     == cache[owner].items[name]
                 updated  == [item EXCEPT !.lastSearchTime = time,
                                          !.numResults = item.numResults + new_results]
                 old_user == cache[user]
                 db_user  == [old_user EXCEPT
                                 !.items = [n \in DOMAIN old_user.items \cup {name} |->
                                              IF n = name THEN updated ELSE old_user.items[n]]]
             IN  [cache |-> [cache EXCEPT ![owner].items[name] = updated],
                  docs  |-> IF db_user # old_user
                            THEN [docs EXCEPT ![user] = db_user]
                            ELSE docs]

-----------------------------------------------------------------------------
(* backend.py: the polling thread *)

\* the process runs in UTC from 21:00 of the day before the transitions
ClockStart == 69 * TicksPerHour

MaxClock == ClockStart + ClockTicks

Schedule(interval, start, zone) ==
    [hour_interval |-> interval, hour_start |-> start, time_zone |-> zone]

U1Schedules == {Schedule(2, 0, UTC), Schedule(5, 0, UTC)}

U2Schedules == {Schedule(2, 0, UTC), Schedule(24, 22, UTC), Schedule(0, 0, UTC),
                Schedule(2, 0, NoZone)}

InitialLast == {0, ClockStart + 2, FarFuture}

UserDoc(schedule, name, region, last) ==
    [hour_interval |-> schedule.hour_interval,
     hour_start    |-> schedule.hour_start,
     time_zone     |-> schedule.time_zone,
     items         |-> [n \in {name} |->
                          [region |-> region, lastSearchTime |-> last, numResults |-> 0]]]

Init ==
    /\ FnOff
    /\ ScanOff
    /\ GridOff
    /\ SyncOff
    /\ JobOff
    /\ StampOff
    /\ host_zone = UTC
    /\ clock = ClockStart
    /\ \E s1 \in U1Schedules, s2 \in U2Schedules, n2 \in {"a", "b"}, r2 \in {0, 1},
          l1 \in InitialLast, l2 \in InitialLast :
            database_cache = [u \in {"u1", "u2"} |->
                                IF u = "u1" THEN UserDoc(s1, "a", 1, l1)
                                ELSE UserDoc(s2, n2, r2, l2)]
    /\ firestore = database_cache
    /\ pc = "idle"
    /\ searches = <<>>
    /\ decided_at = 0
    /\ ran = <<>>
    /\ failure = "none"

\* the search that _check_and_run_search_and_email visits next
CurrentSearch == Head(searches)[2]

IsDue(search) ==
    is_time_to_search(clock, search.hour_start, search.hour_interval,
                      search.last_search_time, search.time_zone, host_zone)

\* time passes
AdvanceClock ==
    /\ pc # "failed"
    /\ clock < MaxClock
    /\ clock' = clock + 1
    /\ UNCHANGED <<database_cache, firestore, pc, searches, decided_at, ran, failure>>
    /\ UNCHANGED besidesBackend

\* run() reaches _check_and_run_search_and_email, which reads the searches
TickStart ==
    /\ pc = "idle"
    /\ searches' = get_searches(database_cache)
    /\ pc' = "loop"
    /\ UNCHANGED <<clock, database_cache, firestore, decided_at, ran, failure>>
    /\ UNCHANGED besidesBackend

CheckSearch_without_test ==
    /\ pc = "loop"
    /\ searches # <<>>
    /\ pc' = "search"
    /\ decided_at' = clock
    /\ UNCHANGED <<searches, failure>>
    /\ UNCHANGED <<clock, database_cache, firestore, ran>>
    /\ UNCHANGED besidesBackend

\* _maybe_run_search up to the call of search_region: the search is skipped
\* when is_time_to_search returns False, and an exception of
\* is_time_to_search leaves run()
CheckSearch ==
    /\ pc = "loop"
    /\ searches # <<>>
    /\ LET due == IsDue(CurrentSearch)
       IN  \/ /\ due = "ValueError"
              /\ pc' = "failed"
              /\ failure' = "is_time_to_search"
              /\ UNCHANGED <<searches, decided_at>>
           \/ /\ due = "False"
              /\ searches' = Tail(searches)
              /\ UNCHANGED <<pc, decided_at, failure>>
           \/ /\ due = "True"
              /\ pc' = "search"
              /\ decided_at' = clock
              /\ UNCHANGED <<searches, failure>>
    /\ UNCHANGED <<clock, database_cache, firestore, ran>>
    /\ UNCHANGED besidesBackend

\* the counters numResults stay within the model's bound
ResultsWithin(cache) ==
    \A u \in DOMAIN cache : \A n \in DOMAIN cache[u].items :
        cache[u].items[n].numResults <= MaxResults

\* search_region returns and _maybe_run_search stamps the search with a new
\* reading of time.time()
SearchReturns ==
    /\ pc = "search"
    /\ \E num_results \in 0..1 :
        LET after == update_search_stats(database_cache, firestore,
                                         CurrentSearch.user, CurrentSearch.search_name,
                                         clock, num_results)
        IN  /\ ResultsWithin(after.cache)
            /\ database_cache' = after.cache
            /\ firestore' = after.docs
    /\ ran' = <<[user |-> CurrentSearch.user, search_name |-> CurrentSearch.search_name,
                 now |-> decided_at]>>
    /\ searches' = Tail(searches)
    /\ pc' = "loop"
    /\ UNCHANGED <<clock, decided_at, failure>>
    /\ UNCHANGED besidesBackend

\* search_region raises: the exception leaves run()
SearchRaises ==
    /\ pc = "search"
    /\ pc' = "failed"
    /\ failure' = "search_region"
    /\ UNCHANGED <<clock, database_cache, firestore, searches, decided_at, ran>>
    /\ UNCHANGED besidesBackend

\* every search of the tick has been visited
TickEnd ==
    /\ pc = "loop"
    /\ searches = <<>>
    /\ pc' = "idle"
    /\ UNCHANGED <<clock, database_cache, firestore, searches, decided_at, ran, failure>>
    /\ UNCHANGED besidesBackend

Next ==
    \/ AdvanceClock
    \/ TickStart
    \/ CheckSearch
    \/ SearchReturns
    \/ SearchRaises
    \/ TickEnd

Spec == Init /\ [][Next]_vars

-----------------------------------------------------------------------------
(* get_searches called on caches whose users have up to two search items *)

SearchSchedules == {Schedule(2, 0, UTC), Schedule(0, 0, UTC), Schedule(2, 0, NoZone)}

\* the documents with the items of one user: any of the names, each with or
\* without a region
UserDocs ==
    {[hour_interval |-> sch.hour_interval,
      hour_start    |-> sch.hour_start,
      time_zone     |-> sch.time_zone,
      items         |-> [n \in DOMAIN regions |->
                           [region |-> regions[n], lastSearchTime |-> 0, numResults |-> 0]]] :
        sch \in SearchSchedules,
        regions \in UNION {[S -> Regions] : S \in SUBSET {"a", "b"}}}

InitSearches ==
    /\ FnOff
    /\ ScanOff
    /\ GridOff
    /\ SyncOff
    /\ JobOff
    /\ StampOff
    /\ host_zone = UTC
    /\ clock = ClockStart
    /\ database_cache \in [{"u1", "u2"} -> UserDocs]
    /\ firestore = database_cache
    /\ pc = "idle"
    /\ searches = <<>>
    /\ decided_at = 0
    /\ ran = <<>>
    /\ failure = "none"

NextSearches == TickStart

SpecSearches == InitSearches /\ [][NextSearches]_vars

-----------------------------------------------------------------------------
(* The interval grid of a schedule, in the wall-clock terms of its own zone *)

Called == result \in {"True", "False", "ValueError"}

ValidInterval == interval_hour \in AllowedIntervals

\* wall-clock time of the instant t in zone z
LocalWall(z, t) == t + UtcOffset(z, t)

LocalHour(z, t) == (LocalWall(z, t) \div TicksPerHour) % 24

\* t is a grid boundary: its wall-clock time in z is a full hour congruent
\* to start modulo interval
OnGrid(t, start, interval, z) ==
    /\ LocalWall(z, t) % TicksPerHour = 0
    /\ (LocalHour(z, t) + 24 - start) % interval = 0

\* start of the interval bucket that contains now: the greatest boundary <= now
BucketStart(now, start, interval, z) ==
    CHOOSE b \in (now - 2 * 24 * TicksPerHour)..now :
        /\ OnGrid(b, start, interval, z)
        /\ \A c \in (b + 1)..now : ~OnGrid(c, start, interval, z)

CurrentBucketStart == BucketStart(now_uclock, start_hour, interval_hour, time_zone)

-----------------------------------------------------------------------------
(* Claims about is_time_to_search, checked under SpecFn *)

\* C1: if last_search_time <= now lies at or after the start of the bucket
\* that contains now, is_time_to_search returns False.
C1_NotDueInsideBucket ==
    (Called /\ ValidInterval /\ last_search_time <= now_uclock
            /\ last_search_time >= CurrentBucketStart)
        => result = "False"

\* C2: if last_search_time is strictly before the start of the bucket that
\* contains now, is_time_to_search returns True.
C2_DueBeforeBucket ==
    (Called /\ ValidInterval /\ last_search_time < CurrentBucketStart)
        => result = "True"

\* C3: if last_search_time is on a grid boundary and now is exactly
\* interval_hour hours later, on the next boundary, is_time_to_search returns True.
C3_DueOneIntervalLater ==
    (Called /\ ValidInterval
            /\ OnGrid(last_search_time, start_hour, interval_hour, time_zone)
            /\ OnGrid(now_uclock, start_hour, interval_hour, time_zone)
            /\ now_uclock = last_search_time + interval_hour * TicksPerHour)
        => result = "True"

C3_Witness ==
    /\ result = "True"
    /\ interval_hour = 6
    /\ OnGrid(last_search_time, start_hour, interval_hour, time_zone)
    /\ OnGrid(now_uclock, start_hour, interval_hour, time_zone)
    /\ now_uclock = last_search_time + interval_hour * TicksPerHour

\* C4: for an interval_hour outside {1,2,3,4,6,8,12,24}, is_time_to_search
\* returns False for every now, start_hour, last_search_time and zone.
C4_InvalidIntervalNotDue ==
    (Called /\ ~ValidInterval) => result = "False"

C4_Witness ==
    /\ result = "False"
    /\ interval_hour = 5
    /\ last_search_time = 0

\* C5: for a valid schedule, last_search_time > now makes is_time_to_search
\* return False.
C5_FutureLastRunNotDue ==
    (Called /\ ValidInterval /\ last_search_time > now_uclock)
        => result = "False"

\* C6: is_time_to_search never raises: every call ends with a boolean.
C6_NeverRaises ==
    Called => result \in {"True", "False"}

\* C7: the result of is_time_to_search depends on nothing but its arguments:
\* the same arguments give the same result in whatever local zone the
\* process runs.
C7_ResultDependsOnArgumentsOnly ==
    Called =>
        \A h \in Zones :
            is_time_to_search(now_uclock, start_hour, interval_hour,
                              last_search_time, time_zone, h) = result

-----------------------------------------------------------------------------
(* Claims about the anchor, the boundary list and the scan, checked under SpecFn *)

Range(seq) == {seq[i] : i \in DOMAIN seq}

HoursOf(times, z) == {LocalHour(z, t) : t \in Range(times)}

\* last_search_time at local 23:00 and now at or after it, start_hour 22,
\* interval_hour 4
C11_Case ==
    /\ Called
    /\ start_hour = 22
    /\ interval_hour = 4
    /\ LocalWall(time_zone, last_search_time) % TicksPerHour = 0
    /\ LocalHour(time_zone, last_search_time) = 23
    /\ now_uclock >= last_search_time

\* the wall-clock time of now is before (Before) or exactly at (At) the local
\* 02:00 that follows last_search_time
C11_Before02 ==
    LocalWall(time_zone, now_uclock) < LocalWall(time_zone, last_search_time) + 3 * TicksPerHour

C11_At02 ==
    LocalWall(time_zone, now_uclock) = LocalWall(time_zone, last_search_time) + 3 * TicksPerHour

\* the part of C11 about the result alone
C11_ResultAcrossMidnight ==
    C11_Case => /\ C11_Before02 => result = "False"
                /\ C11_At02 => result = "True"

\* C11: with start_hour 22 and interval_hour 4 the boundaries fall at local
\* 22:00, 02:00, 06:00, 10:00, 14:00 and 18:00; with last_search_time at local
\* 23:00 is_time_to_search returns False for every now before local 02:00 of
\* the next day and True at local 02:00.
C11_CrossMidnight ==
    /\ (Called /\ start_hour = 22 /\ interval_hour = 4) =>
            /\ \A t \in Range(frame.interval_times) : OnGrid(t, 22, 4, time_zone)
            /\ HoursOf(frame.interval_times, time_zone) = {22, 2, 6, 10, 14, 18}
    /\ C11_ResultAcrossMidnight

LocalDayStart(z, t) == (LocalWall(z, t) \div (24 * TicksPerHour)) * (24 * TicksPerHour)

\* the wall-clock time of t in z is start:00:00 on the date that now has in z
IsLocalStartTime(t, now, start, z) ==
    LocalWall(z, t) = LocalDayStart(z, now) + start * TicksPerHour

\* C12: get_localized_start_time returns the instant whose wall-clock time in
\* time_zone is start_hour:00 on the date that now has in time_zone, whatever
\* the zone of the host; so it is <= now exactly when the local hour of now
\* is >= start_hour.  (A start_hour:00 that the date does not have, in the gap
\* of a transition, is left out.)
C12_AnchorIsLocalStartHour ==
    (Called /\ ValidInterval
            /\ \E t \in (now_uclock - 48 * TicksPerHour)..(now_uclock + 48 * TicksPerHour) :
                    IsLocalStartTime(t, now_uclock, start_hour, time_zone))
        => /\ IsLocalStartTime(frame.start_time_uclock, now_uclock, start_hour, time_zone)
           /\ (frame.start_time_uclock <= now_uclock)
                  <=> (LocalHour(time_zone, now_uclock) >= start_hour)

ScanCalled == scan_result # <<>>

\* C13: for an ascending list of at least two boundaries and a now at or after
\* the first of them, get_start_of_last_interval returns the greatest boundary
\* <= now, never None.
C13_GreatestBoundaryNotAfterNow ==
    (ScanCalled /\ Len(scan_times) >= 2 /\ scan_now >= scan_times[1])
        => /\ scan_result[1] # None
           /\ scan_result[1] \in Range(scan_times)
           /\ scan_result[1] <= scan_now
           /\ \A b \in Range(scan_times) : b <= scan_now => b <= scan_result[1]

\* C14: for an ascending list of at least two boundaries and a now before all
\* of them, get_start_of_last_interval returns None.
C14_NoneBeforeEveryBoundary ==
    (ScanCalled /\ Len(scan_times) >= 2 /\ \A b \in Range(scan_times) : scan_now < b)
        => scan_result[1] = None

\* C15: when now equals a boundary of the list, get_start_of_last_interval
\* returns that boundary, and is_time_to_search returns True for a
\* last_search_time < now and False for last_search_time = now.
C15_TieGoesToTheBoundary ==
    /\ (ScanCalled /\ scan_now \in Range(scan_times)) => scan_result[1] = scan_now
    /\ (Called /\ ValidInterval /\ now_uclock \in Range(frame.interval_times)) =>
            /\ last_search_time <= now_uclock => frame.start_of_last_interval = now_uclock
            /\ last_search_time < now_uclock => result = "True"
            /\ last_search_time = now_uclock => result = "False"

C15_Witness ==
    /\ Called
    /\ ValidInterval
    /\ now_uclock = frame.interval_times[Len(frame.interval_times)]
    /\ frame.start_of_last_interval = now_uclock
    /\ last_search_time < now_uclock
    /\ last_search_time > 0
    /\ result = "True"

\* C16: the boundary list is the strictly increasing arithmetic sequence
\* anchor - 1 day + k * interval_hour hours, k = 0..count-1.
C16_BoundariesAreArithmetic ==
    (Called /\ ValidInterval) =>
        /\ \A k \in DOMAIN frame.interval_times :
              frame.interval_times[k] =
                  frame.start_time_uclock - 24 * TicksPerHour
                      + (k - 1) * interval_hour * TicksPerHour
        /\ \A k \in 1..(Len(frame.interval_times) - 1) :
              frame.interval_times[k] < frame.interval_times[k + 1]

C16_Witness ==
    /\ Called
    /\ interval_hour = 8
    /\ Len(frame.interval_times) = 6
    /\ frame.interval_times[6] = frame.start_time_uclock + 16 * TicksPerHour

\* C17: the number of boundaries is max(2 * (24 / interval_hour), 2), at least
\* 2, so get_start_of_last_interval never gets a one-element list from
\* is_time_to_search.
C17_AtLeastTwoBoundaries ==
    (Called /\ ValidInterval) =>
        /\ Len(frame.interval_times) =
              (IF 2 * (24 \div interval_hour) > 2 THEN 2 * (24 \div interval_hour) ELSE 2)
        /\ Len(frame.interval_times) >= 2

C17_Witness ==
    /\ Called
    /\ interval_hour = 24
    /\ frame.scanned
    /\ Len(frame.interval_times) = 2

\* C18: the first boundary is at local start_hour:00 of the local day before
\* the anchor's, also across a daylight-saving transition, and every boundary
\* falls on a local hour congruent to start_hour modulo interval_hour.
C18_WindowStartsOneLocalDayBack ==
    (Called /\ ValidInterval) =>
        /\ LocalWall(time_zone, frame.interval_times[1]) =
              LocalWall(time_zone, frame.start_time_uclock) - 24 * TicksPerHour
        /\ \A t \in Range(frame.interval_times) :
              OnGrid(t, start_hour, interval_hour, time_zone)

\* C19: for a list of exactly one boundary get_start_of_last_interval returns
\* that boundary, whether now is before, at or after it.
C19_SingletonReturned ==
    (ScanCalled /\ Len(scan_times) = 1) => scan_result[1] = scan_times[1]

C19_Witness ==
    /\ ScanCalled
    /\ Len(scan_times) = 1
    /\ scan_now < scan_times[1]
    /\ scan_result[1] = scan_times[1]

\* C20: in every call of is_time_to_search with a valid interval the first
\* boundary is at or before now, so the scan never meets a first boundary
\* later than now.
C20_FirstBoundaryNotAfterNow ==
    (Called /\ ValidInterval) => frame.interval_times[1] <= now_uclock

\* C23: for a valid schedule with last_search_time <= now, from the first
\* grid boundary after last_search_time on is_time_to_search returns True at
\* every instant (a due search stays due until it is run).
C23_DueStaysDue ==
    (Called /\ ValidInterval /\ last_search_time <= now_uclock
            /\ \E b \in (last_search_time + 1)..now_uclock :
                   /\ b > now_uclock - 48 * TicksPerHour
                   /\ OnGrid(b, start_hour, interval_hour, time_zone))
        => result = "True"

-----------------------------------------------------------------------------
(* Claims about the polling thread, checked under Spec *)

\* C8: search_region is called for a search only if is_time_to_search
\* returned True for it in this tick, and the registry is written only when
\* that call has returned; a search that is not due gets no call and its
\* record is left as it is.
C8_ExecutorOnlyWhenDue ==
    [][ /\ (pc # "search" /\ pc' = "search") =>
               (pc = "loop" /\ searches # <<>> /\ IsDue(CurrentSearch) = "True")
        /\ (database_cache' # database_cache \/ firestore' # firestore) =>
               (pc = "search" /\ pc' = "loop")
      ]_vars

\* a search has been run and stamped, and the next search of the same tick
\* is not due
C8_Witness ==
    /\ pc = "loop"
    /\ Len(ran) = 1
    /\ database_cache[ran[1].user].items[ran[1].search_name].lastSearchTime >= ran[1].now
    /\ searches # <<>>
    /\ IsDue(CurrentSearch) = "False"

\* C9: after a due search has been run, the registry's last_search_time of
\* that search is the now that was passed to is_time_to_search.
C9_StampedWithDecisionNow ==
    Len(ran) = 1 =>
        database_cache[ran[1].user].items[ran[1].search_name].lastSearchTime = ran[1].now

\* a search with an interval outside the allowed set or a last_search_time
\* after now
Misconfigured(search, now) ==
    \/ search.hour_interval \notin AllowedIntervals
    \/ search.last_search_time > now

\* C10: a misconfigured or clock-skewed search is never run and never makes
\* the tick fail, so the remaining searches of the tick are still visited.
C10_SkippedSearchNeverFailsTick ==
    /\ pc = "search" => ~Misconfigured(CurrentSearch, decided_at)
    /\ failure # "is_time_to_search"

\* the searches of the tick have been read and the search at their head is
\* being run
Running == pc = "search"

\* the search being run is the one that was run last, and its
\* last_search_time is the stamp of that execution
RunAgain ==
    /\ Running
    /\ Len(ran) = 1
    /\ ran[1].user = CurrentSearch.user
    /\ ran[1].search_name = CurrentSearch.search_name
    /\ CurrentSearch.last_search_time >= ran[1].now
    /\ CurrentSearch.last_search_time <= decided_at

\* C22: a search with a valid interval that was executed and stamped at a time
\* t is not executed again while now is in the bucket of t: a search is run
\* at most once between two consecutive grid boundaries.
C22_AtMostOncePerBucket ==
    (RunAgain /\ CurrentSearch.hour_interval \in AllowedIntervals)
        => CurrentSearch.last_search_time <
               BucketStart(decided_at, CurrentSearch.hour_start,
                           CurrentSearch.hour_interval, CurrentSearch.time_zone)

\* the user and the name of the search being run
Target == <<CurrentSearch.user, CurrentSearch.search_name>>

Records(docs) == {<<u, n>> : u \in DOMAIN docs, n \in {"a", "b"}}

RecordOf(docs, r) ==
    IF r[2] \in DOMAIN docs[r[1]].items THEN <<docs[r[1]].items[r[2]]>> ELSE <<>>

\* C24: update_search_stats(user, search_name, ...) changes the cached and the
\* uploaded record of that user's search of that name only, also when two
\* users have a search of the same name.
C24_OnlyTheTargetRecordChanges ==
    [][Running =>
          \A r \in Records(database_cache) :
              r # Target =>
                  /\ RecordOf(database_cache', r) = RecordOf(database_cache, r)
                  /\ RecordOf(firestore', r) = RecordOf(firestore, r)]_vars

-----------------------------------------------------------------------------
(* Claims about get_searches, checked under SpecSearches *)

\* the search items that have a region and belong to a user with a non-zero
\* interval and a non-empty time zone
Configured ==
    {r \in Records(database_cache) :
        /\ database_cache[r[1]].hour_interval # 0
        /\ database_cache[r[1]].time_zone.name # ""
        /\ r[2] \in DOMAIN database_cache[r[1]].items
        /\ database_cache[r[1]].items[r[2]].region # 0}

EntriesOf(r) ==
    {i \in DOMAIN searches :
        searches[i][2].user = r[1] /\ searches[i][2].search_name = r[2]}

\* C25: get_searches returns exactly one entry for every configured search
\* item: no two items get the same key and none is dropped.
C25_OneEntryPerConfiguredSearch ==
    pc = "loop" =>
        /\ \A r \in Configured : Cardinality(EntriesOf(r)) = 1
        /\ Len(searches) = Cardinality(Configured)

-----------------------------------------------------------------------------
(* Claims about get_search_grid_details, checked under SpecGrid and SpecGridLive *)

\* C21: a returned grid costs 0 < total_cost <= max_cost_per_city and has at
\* most the number_of_squares cells that total_cost was computed from; a pass
\* that is over the budget with a radius no larger than the step returns the
\* failure result: empty grid, 0 squares, radius 0.
C21_GridWithinBudget ==
    /\ [](optimizer.pc = "returned" =>
             /\ 0 < optimizer.returned.total_cost
             /\ optimizer.returned.total_cost <= optimizer.max_cost_per_city
             /\ optimizer.returned.total_cost =
                   optimizer.returned.number_of_squares * optimizer.cost_per_search
             /\ optimizer.returned.grid <= optimizer.returned.number_of_squares)
    /\ [](optimizer.pc = "failed" =>
             /\ optimizer.returned.grid = 0
             /\ optimizer.returned.number_of_squares = 0
             /\ optimizer.returned.new_radius_meters = 0)
    /\ [][(/\ optimizer.pc = "loop"
            /\ PassCost.total_cost > optimizer.max_cost_per_city
            /\ optimizer.new_radius_meters <= optimizer.step_size_meters)
              => optimizer'.pc = "failed"]_vars

\* a grid with cells is returned for a radius that had to be reduced
C21_Witness ==
    /\ optimizer.pc = "returned"
    /\ optimizer.returned.new_radius_meters < optimizer.radius_meters
    /\ optimizer.returned.grid > 1
    /\ optimizer.returned.total_cost = optimizer.max_cost_per_city

\* C30: for a positive grid width and radius, every budget and every
\* cost_per_search >= 0 the loop of get_search_grid_details ends, with a cost
\* inside the budget or with the failure result.
C30_OptimizerTerminates ==
    <>(optimizer.pc \in {"returned", "failed"})

-----------------------------------------------------------------------------
(* firebase/user.py: the snapshot callback, update_from_firebase and the         *)
(* polling thread on database_cache, database_cache_lock and callback_done.      *)
(* A dict object is named by a number; self.database_cache is the number of the  *)
(* object bound to the attribute, and dicts gives the keys each object holds.    *)

\* how many times the cache is rebuilt in a behaviour
MaxSnapshots == 2

\* the ids of the documents of the users collection
DocIds == {Users[i] : i \in 1..Len(Users)}

DictIds == 0..MaxSnapshots

\* FirebaseUser.__init__: an empty cache, the event clear, the lock free
InitSync ==
    /\ BackendOff
    /\ FnOff
    /\ host_zone = UTC
    /\ ScanOff
    /\ GridOff
    /\ JobOff
    /\ StampOff
    /\ sync = [pc |-> "on",
               database_cache |-> 0,
               dicts    |-> [d \in DictIds |-> {}],
               snapshot |-> [d \in DictIds |-> {}],
               made     |-> 0,
               database_cache_lock |-> "free",
               callback_done |-> FALSE,
               writer |-> [pc |-> "idle", kind |-> "none", todo |-> {}, removed |-> {}],
               poller |-> [pc |-> "idle", it_dict |-> 0, it_used |-> 0, it_seen |-> {},
                           notified |-> {}],
               signalled |-> {},
               reads  |-> {},
               raised |-> {}]

\* _collection_snapshot_handler and update_from_firebase, up to the rebinding:
\* the lock is taken and self.database_cache is bound to a new empty dict.
\* docs are the documents of the snapshot; removed the documents changed_docs
\* reports as REMOVED, which are not among the documents of the snapshot.
WriterRebinds ==
    /\ sync.pc = "on"
    /\ sync.writer.pc = "idle"
    /\ sync.made < MaxSnapshots
    /\ sync.database_cache_lock = "free"
    /\ \E kind \in {"snapshot", "update"}, docs \in SUBSET DocIds :
         \E removed \in {{}, sync.dicts[sync.database_cache] \ docs} :
            /\ kind = "update" => removed = {}
            /\ sync' = [sync EXCEPT
                          !.made = @ + 1,
                          !.database_cache = sync.made + 1,
                          !.dicts[sync.made + 1] = {},
                          !.snapshot[sync.made + 1] = docs,
                          !.database_cache_lock = "writer",
                          !.writer = [pc |-> "fill", kind |-> kind, todo |-> docs,
                                      removed |-> removed]]
    /\ UNCHANGED besidesSync

\* self.database_cache[doc.id] = doc_dict, for one document of the snapshot
WriterInserts ==
    /\ sync.pc = "on"
    /\ sync.writer.pc = "fill"
    /\ \E doc \in sync.writer.todo :
         sync' = [sync EXCEPT !.dicts[sync.database_cache] = @ \cup {doc},
                              !.writer.todo = @ \ {doc}]
    /\ UNCHANGED besidesSync

\* the end of the with block: the lock is released
WriterReleases ==
    /\ sync.pc = "on"
    /\ sync.writer.pc = "fill"
    /\ sync.writer.todo = {}
    /\ sync' = [sync EXCEPT !.database_cache_lock = "free", !.writer.pc = "tail"]
    /\ UNCHANGED besidesSync

\* what follows the with block.  The loop over the old keys deletes nothing (it
\* calls _delete_user only for keys that are not in the new cache).  The loop
\* over changed_docs reads self.database_cache[doc_id], a KeyError for a REMOVED
\* document; otherwise get_searches runs under the lock and callback_done is set.
WriterSignals ==
    /\ sync.pc = "on"
    /\ sync.writer.pc = "tail"
    /\ sync.database_cache_lock = "free"
    /\ IF sync.writer.removed \ sync.dicts[sync.database_cache] # {}
         THEN sync' = [sync EXCEPT !.writer.pc = "idle",
                                   !.raised = @ \cup {"KeyError"}]
         ELSE sync' = [sync EXCEPT !.writer.pc = "idle",
                                   !.callback_done = TRUE,
                                   !.signalled = @ \cup {sync.database_cache}]
    /\ UNCHANGED besidesSync

\* the steps of a rebuild once it has begun
WriterContinues == WriterInserts \/ WriterReleases \/ WriterSignals

\* check_and_maybe_handle_firebase_db_updates: callback_done.is_set() is true
\* (a call that finds the event clear returns and changes nothing)
PollerIsSet ==
    /\ sync.pc = "on"
    /\ sync.poller.pc = "idle"
    /\ sync.callback_done
    /\ sync' = [sync EXCEPT !.poller.pc = "clear"]
    /\ UNCHANGED besidesSync

\* callback_done.clear()
PollerClears ==
    /\ sync.pc = "on"
    /\ sync.poller.pc = "clear"
    /\ sync' = [sync EXCEPT !.callback_done = FALSE, !.poller.pc = "items"]
    /\ UNCHANGED besidesSync

\* the iterator over self.database_cache.items(): the dict object bound at this
\* moment and its size, read without the lock (notified: the snapshots
\* callback_done had been set for by then)
PollerItems ==
    /\ sync.pc = "on"
    /\ sync.poller.pc = "items"
    /\ sync' = [sync EXCEPT !.poller.pc = "next",
                            !.poller.it_dict = sync.database_cache,
                            !.poller.it_used = Cardinality(sync.dicts[sync.database_cache]),
                            !.poller.it_seen = {},
                            !.poller.notified = sync.signalled]
    /\ UNCHANGED besidesSync

\* one step of the for loop: RuntimeError when the dict changed size since the
\* iterator was made, the end of the loop when every key was visited, else
\* _handle_firebase_update for the next key
PollerNext ==
    /\ sync.pc = "on"
    /\ sync.poller.pc = "next"
    /\ LET dict == sync.dicts[sync.poller.it_dict] IN
         IF Cardinality(dict) # sync.poller.it_used
           THEN sync' = [sync EXCEPT !.poller.pc = "idle",
                                     !.raised = @ \cup {"RuntimeError"}]
           ELSE IF sync.poller.it_seen = dict
             THEN sync' = [sync EXCEPT
                             !.poller.pc = "idle",
                             !.reads = @ \cup {[op |-> "items",
                                                dict |-> sync.poller.it_dict,
                                                users |-> sync.poller.it_seen,
                                                notified |-> sync.poller.notified]}]
             ELSE \E user \in dict \ sync.poller.it_seen :
                    sync' = [sync EXCEPT !.poller.it_seen = @ \cup {user}]
    /\ UNCHANGED besidesSync

\* get_searches in the polling thread: the whole read is made under the lock
PollerGetSearches ==
    /\ sync.pc = "on"
    /\ sync.poller.pc = "idle"
    /\ sync.database_cache_lock = "free"
    /\ sync' = [sync EXCEPT
                  !.reads = @ \cup {[op |-> "get_searches",
                                     dict |-> sync.database_cache,
                                     users |-> sync.dicts[sync.database_cache],
                                     notified |-> {}]}]
    /\ UNCHANGED besidesSync

NextSync ==
    \/ WriterRebinds
    \/ WriterInserts
    \/ WriterReleases
    \/ WriterSignals
    \/ PollerIsSet
    \/ PollerClears
    \/ PollerItems
    \/ PollerNext
    \/ PollerGetSearches

SpecSync == InitSync /\ [][NextSync]_vars

\* both threads are scheduled: a rebuild that began goes on, and the polling
\* loop calls check_and_maybe_handle_firebase_db_updates again and again
SpecSyncLive ==
    /\ SpecSync
    /\ WF_vars(WriterContinues)
    /\ WF_vars(PollerIsSet)
    /\ WF_vars(PollerClears)
    /\ WF_vars(PollerItems)
    /\ WF_vars(PollerNext)

\* a read of the cache saw every document of the snapshot its dict was built from
CompleteRead(r) == r.users = sync.snapshot[r.dict]

\* C26: every read of database_cache by the polling thread observes a complete
\* snapshot, and the polling thread never iterates a dict that still lacks
\* documents of its snapshot (so its iteration never raises RuntimeError either).
C26_ReadsSeeCompleteSnapshots ==
    /\ \A r \in sync.reads : CompleteRead(r)
    /\ "RuntimeError" \notin sync.raised
    /\ sync.poller.pc = "next" =>
          sync.dicts[sync.poller.it_dict] = sync.snapshot[sync.poller.it_dict]

-----------------------------------------------------------------------------
(* backend.py: _run_search_context_job, self.threads and the worker threads.     *)
(* A Thread object is named by a number; threads.dict is self.threads, with      *)
(* Absent for a user that has no key and None for the value None.                *)

\* how many worker threads are created in a behaviour
MaxWorkers == 3

Absent == -2

WorkerIds == 1..MaxWorkers

\* TgtgCollectorBackend.__init__: self.threads = {}
InitJob ==
    /\ BackendOff
    /\ FnOff
    /\ host_zone = UTC
    /\ ScanOff
    /\ GridOff
    /\ SyncOff
    /\ StampOff
    /\ threads = [pc |-> "on",
                  dict   |-> [u \in DocIds |-> Absent],
                  worker |-> [i \in WorkerIds |-> "none"],
                  owner  |-> [i \in WorkerIds |-> "none"],
                  made   |-> 0,
                  main   |-> [pc |-> "idle", user |-> "none"],
                  raised |-> {}]

\* Thread.is_alive(): from start() until the target function has returned
is_alive(i) == threads.worker[i] \in {"run_search", "ended"}

\* _run_search_context_job for a context with trigger_search, first operand of
\* the test: self.threads.get(user) is not None.  When it is None the test is
\* false and the job goes on to start a worker.
MainGetsThread ==
    /\ threads.pc = "on"
    /\ threads.main.pc = "idle"
    /\ \E user \in DocIds :
         threads' = [threads EXCEPT
                       !.main = [pc |-> IF threads.dict[user] \in {Absent, None}
                                          THEN "start" ELSE "is_alive",
                                 user |-> user]]
    /\ UNCHANGED besidesJob

\* second operand of the test: self.threads[user].is_alive(), a second read of
\* the dict.  AttributeError when the value is None by now; return when the
\* thread is alive; otherwise the job goes on.
MainIsAlive ==
    /\ threads.pc = "on"
    /\ threads.main.pc = "is_alive"
    /\ LET thread == threads.dict[threads.main.user] IN
         IF thread = None
           THEN threads' = [threads EXCEPT !.main = [pc |-> "idle", user |-> "none"],
                                           !.raised = @ \cup {"AttributeError"}]
           ELSE IF is_alive(thread)
             THEN threads' = [threads EXCEPT !.main = [pc |-> "idle", user |-> "none"]]
             ELSE threads' = [threads EXCEPT !.main.pc = "start"]
    /\ UNCHANGED besidesJob

\* self.threads[user] = threading.Thread(target=_run_search_thread, daemon=True)
MainMakesThread ==
    /\ threads.pc = "on"
    /\ threads.main.pc = "start"
    /\ threads.made < MaxWorkers
    /\ threads' = [threads EXCEPT !.made = @ + 1,
                                  !.dict[threads.main.user] = threads.made + 1,
                                  !.worker[threads.made + 1] = "created",
                                  !.owner[threads.made + 1] = threads.main.user,
                                  !.main.pc = "made"]
    /\ UNCHANGED besidesJob

\* self.threads[user].start(): the worker enters run_search
MainStartsThread ==
    /\ threads.pc = "on"
    /\ threads.main.pc = "made"
    /\ LET thread == threads.dict[threads.main.user] IN
         IF thread = None
           THEN threads' = [threads EXCEPT !.main = [pc |-> "idle", user |-> "none"],
                                           !.raised = @ \cup {"AttributeError"}]
           ELSE threads' = [threads EXCEPT !.main = [pc |-> "idle", user |-> "none"],
                                           !.worker[thread] = "run_search"]
    /\ UNCHANGED besidesJob

\* _run_search_thread: searcher.run_search returns, or raises and the thread
\* ends without its last statement
WorkerLeavesRunSearch ==
    /\ threads.pc = "on"
    /\ \E i \in WorkerIds :
         /\ threads.worker[i] = "run_search"
         /\ \E after \in {"ended", "dead"} :
              threads' = [threads EXCEPT !.worker[i] = after]
    /\ UNCHANGED besidesJob

\* the last statement of _run_search_thread: self.threads[user] = None
WorkerClearsThread ==
    /\ threads.pc = "on"
    /\ \E i \in WorkerIds :
         /\ threads.worker[i] = "ended"
         /\ threads' = [threads EXCEPT !.worker[i] = "dead",
                                       !.dict[threads.owner[i]] = None]
    /\ UNCHANGED besidesJob

NextJob ==
    \/ MainGetsThread
    \/ MainIsAlive
    \/ MainMakesThread
    \/ MainStartsThread
    \/ WorkerLeavesRunSearch
    \/ WorkerClearsThread

SpecJob == InitJob /\ [][NextJob]_vars

\* the workers of a user that are inside run_search
InRunSearch(user) ==
    {i \in WorkerIds : threads.owner[i] = user /\ threads.worker[i] = "run_search"}

\* C28: the liveness check of _run_search_context_job never raises, and a
\* worker is started for a user only when no other worker of that user is
\* inside run_search (so at most one worker of a user is inside run_search).
C28_CheckAndStartIsRaceFree ==
    /\ threads.raised = {}
    /\ \A user \in DocIds : Cardinality(InRunSearch(user)) <= 1

-----------------------------------------------------------------------------
(* search_context/searcher.py: run_search, the stamp file and common_data.       *)
(* A grid cell is named by its index in search_grid.  Every run_search is made   *)
(* on a new Searcher (backend.py makes one per job), so common_data["search_num"]*)
(* is 0 when a run begins.                                                       *)

\* the longest search grid
MaxCells == 3

\* how many times run_search is called in a behaviour
MaxRuns == 3

SearchNames == {Names[i] : i \in 1..Len(Names)}

\* searcher.stamp when there is no file searcher.stamp.  csv names the CSV
\* files the stamp records (0 for the empty names of a dry run); first and
\* processed are history: the start index of the run that began the pass the
\* stamp belongs to, and the cells processed in that pass when it was written.
NoStampFile ==
    [exists |-> FALSE, torn |-> FALSE, search_name |-> "", search_num |-> 0, csv |-> 0,
     first |-> 0, processed |-> {}]

\* _update_common_data with no default: the search number restarts from 0
update_common_data_no_default(search_num, default_search_num) == search_num + 1

\* _update_common_data, on common_data["search_num"]: a search number of 0 is
\* first replaced by default_search_num, then the number is incremented
update_common_data(search_num, default_search_num) ==
    (IF search_num = 0 THEN default_search_num ELSE search_num) + 1

\* _check_and_maybe_use_stamp_info: None without a stamp file, for another
\* search name, for a missing CSV file or for a search_num that is not a
\* non-zero int; else the search_num of the stamp
check_and_maybe_use_stamp_info(stamp_info, expected_search_name, files) ==
    IF ~stamp_info.exists THEN None
    ELSE IF stamp_info.search_name # expected_search_name THEN None
    ELSE IF stamp_info.csv \notin files THEN None
    ELSE IF stamp_info.search_num = 0 THEN None
    ELSE stamp_info.search_num

\* no stamp file, no CSV file, a grid of 1 to MaxCells cells, no run yet;
\* dry_run is the setting of the process
InitStamp ==
    /\ BackendOff
    /\ FnOff
    /\ host_zone = UTC
    /\ ScanOff
    /\ GridOff
    /\ SyncOff
    /\ JobOff
    /\ \E len \in 1..MaxCells, dry_run \in BOOLEAN :
         searcher = [pc |-> "idle",
                     dry_run     |-> dry_run,
                     grid_len    |-> len,
                     search_name |-> "",
                     search_grid_start_index |-> 0,
                     resumed     |-> FALSE,
                     index       |-> 0,
                     search_num  |-> 0,
                     csv         |-> 0,
                     files       |-> {},
                     stamp       |-> NoStampFile,
                     first       |-> 0,
                     processed   |-> {},
                     completed   |-> {},
                     runs        |-> 0,
                     raised      |-> {}]

\* Searcher() and run_search up to the loop, for a non-empty grid.  The new
\* Searcher names new CSV files (made: they are on disk already).  The stamp
\* file is read (json.load raises on a file that was cut short) and used when
\* the start index given is <= 0; a run that resumes takes the CSV files of the
\* stamp.  _setup_csv_loggers opens the CSV files with "r+", FileNotFoundError
\* for a missing file, unless dry_run.
RunSearchBegins ==
    /\ searcher.pc = "idle"
    /\ searcher.runs < MaxRuns
    /\ \E name \in SearchNames, start_index \in 0..searcher.grid_len, made \in BOOLEAN :
         LET files == searcher.files \cup (IF made THEN {searcher.runs + 1} ELSE {})
             maybe_start_index == check_and_maybe_use_stamp_info(searcher.stamp, name, files)
             resumes == start_index <= 0 /\ maybe_start_index # None
             begin == IF resumes THEN maybe_start_index ELSE start_index
             csv == IF resumes THEN searcher.stamp.csv ELSE searcher.runs + 1
         IN  IF searcher.stamp.exists /\ searcher.stamp.torn
               THEN searcher' = [searcher EXCEPT !.runs = @ + 1,
                                                 !.files = files,
                                                 !.raised = @ \cup {"JSONDecodeError"}]
               ELSE IF ~searcher.dry_run /\ csv \notin files
                 THEN searcher' = [searcher EXCEPT !.runs = @ + 1,
                                                   !.files = files,
                                                   !.raised = @ \cup {"FileNotFoundError"}]
                 ELSE searcher' = [searcher EXCEPT
                                     !.pc = "loop",
                                     !.runs = @ + 1,
                                     !.files = files,
                                     !.search_name = name,
                                     !.search_grid_start_index = begin,
                                     !.resumed = resumes,
                                     !.index = begin,
                                     !.search_num = 0,
                                     !.csv = csv,
                                     !.first = IF resumes THEN searcher.stamp.first ELSE begin,
                                     !.processed = IF resumes THEN searcher.stamp.processed
                                                              ELSE {}]
    /\ UNCHANGED besidesStamp

\* one pass of the loop up to the stamp: _update_common_data and _search_a_grid
SearchesAGrid ==
    /\ searcher.pc = "loop"
    /\ searcher.index < searcher.grid_len
    /\ searcher' = [searcher EXCEPT
                      !.pc = "searched",
                      !.search_num = update_common_data(@, searcher.search_grid_start_index),
                      !.processed = @ \cup {searcher.index}]
    /\ UNCHANGED besidesStamp

\* _update_stamp_file(search_name, common_data["search_num"]), then the next
\* cell; the file names are empty when there are no loggers (dry_run)
UpdatesStampFile ==
    /\ searcher.pc = "searched"
    /\ searcher' = [searcher EXCEPT
                      !.pc = "loop",
                      !.index = @ + 1,
                      !.stamp = [exists |-> TRUE, torn |-> FALSE,
                                 search_name |-> searcher.search_name,
                                 search_num  |-> searcher.search_num,
                                 csv |-> IF searcher.dry_run THEN 0 ELSE searcher.csv,
                                 first |-> searcher.first,
                                 processed |-> searcher.processed]]
    /\ UNCHANGED besidesStamp

\* after the loop: os.remove(STAMP_FILE), FileNotFoundError without a file
RunSearchEnds ==
    /\ searcher.pc = "loop"
    /\ searcher.index >= searcher.grid_len
    /\ IF searcher.stamp.exists
         THEN searcher' = [searcher EXCEPT
                             !.pc = "idle",
                             !.stamp = NoStampFile,
                             !.completed = @ \cup {[search_name |-> searcher.search_name,
                                                    first |-> searcher.first,
                                                    processed |-> searcher.processed]}]
         ELSE searcher' = [searcher EXCEPT !.pc = "idle",
                                           !.raised = @ \cup {"FileNotFoundError"}]
    /\ UNCHANGED besidesStamp

\* the process is stopped during run_search; stopped inside _update_stamp_file
\* it may leave a stamp file that was opened for writing and not written
Interrupted ==
    /\ searcher.pc \in {"loop", "searched"}
    /\ \E torn \in BOOLEAN :
         /\ torn => searcher.pc = "searched"
         /\ searcher' = [searcher EXCEPT
                           !.pc = "idle",
                           !.stamp = IF torn
                                       THEN [NoStampFile EXCEPT !.exists = TRUE, !.torn = TRUE]
                                       ELSE @]
    /\ UNCHANGED besidesStamp

\* between two runs somebody removes CSV files
CsvFilesRemoved ==
    /\ searcher.pc = "idle"
    /\ \E csv \in searcher.files : searcher' = [searcher EXCEPT !.files = @ \ {csv}]
    /\ UNCHANGED besidesStamp

NextStamp ==
    \/ RunSearchBegins
    \/ SearchesAGrid
    \/ UpdatesStampFile
    \/ RunSearchEnds
    \/ Interrupted
    \/ CsvFilesRemoved

SpecStamp == InitStamp /\ [][NextStamp]_vars

\* the cells from..to-1
Cells(from, to) == {k \in 0..MaxCells : from <= k /\ k < to}

\* C29: in run_search, once a cell was processed and stamped the stamp records
\* the index of the next unprocessed cell; a run that resumes from the stamp
\* starts at that index, so every cell between the start of the pass and the
\* cell in hand has been processed, and a pass that ends has processed every
\* cell from its start to the end of the grid.
C29_ResumeSkipsNoCell ==
    /\ (searcher.pc = "loop" /\ searcher.index > searcher.search_grid_start_index) =>
          /\ searcher.stamp.exists /\ ~searcher.stamp.torn
          /\ searcher.stamp.search_name = searcher.search_name
          /\ searcher.stamp.search_num = searcher.index
    /\ (searcher.pc = "loop" /\ searcher.resumed
           /\ searcher.index = searcher.search_grid_start_index /\ searcher.stamp.exists) =>
          searcher.index = searcher.stamp.search_num
    /\ searcher.pc \in {"loop", "searched"} =>
          Cells(searcher.first, searcher.index) \subseteq searcher.processed
    /\ \A c \in searcher.completed :
          Cells(c.first, searcher.grid_len) \subseteq c.processed

\* a run that resumed from the stamp at a cell after the first has processed
\* and stamped a cell
C29_Witness ==
    /\ searcher.pc = "loop"
    /\ searcher.resumed
    /\ searcher.search_grid_start_index > 0
    /\ searcher.index > searcher.search_grid_start_index

====
